---- MODULE Spec2Model ----
(***************************************************************************)
(* Model of the pausable countdown Timer of src/wf-auto-tabs.js and of the *)
(* auto tab rotation component (apply) that owns one Timer per tab group.  *)
(*                                                                         *)
(* Time is a discrete clock `now` (>= 1, so that a timestamp is truthy as   *)
(* Date.now() and a frame timestamp are in the browser).  setTimeout is a   *)
(* set of pending callbacks with a due time; a callback runs no earlier     *)
(* than its due time and at most MaxLate units after it.                    *)
(* requestAnimationFrame is an ordered list of callbacks, all run by the    *)
(* next frame.                                                              *)
(***************************************************************************)
EXTENDS Integers, Sequences, FiniteSets, TLC

\* ---- bounds of the model ----
MaxTime  == 5      \* the clock ranges over 1..MaxTime
MaxDelay == 2      \* delay ranges over 1..MaxDelay
MaxCalls == 3      \* number of Timer method calls in one behaviour
MaxLate  == 1      \* how late a due setTimeout callback may run
MaxEvents == 1     \* number of DOM events on a tab group in one behaviour
MaxTabTime == 3    \* the clock of a tab group ranges over 1..MaxTabTime
NumTabs  == 2      \* number of .w-tab-link elements of the tab group

\* setTimeout(..., 400) of activateTab, in clock units
FadeDelay == 1

VARIABLES
    delay,        \* Timer.delay
    tick,         \* TRUE iff Timer.tick (the progress callback) is set
    remaining,    \* Timer.remaining
    start,        \* Timer.start (0 when unset)
    timerId,      \* Timer.timerId (0 when undefined)
    timeouts,     \* pending setTimeout callbacks: [id, due, kind, tab]
    rafQueue,     \* pending requestAnimationFrame callbacks, in order
    now,          \* the clock: Date.now() and the frame timestamp
    currentTab,   \* apply: currentTab (0 when undefined)
    hover,        \* pointer, as the listeners saw it last: "unseen", "out", "entered"
    pauseable,    \* dataStore.get("fb-tabs-pauseable")
    barWidth,     \* progressBar.style.width per tab (-1 when never set)
    barOpacity,   \* progressBar.style.opacity per tab (-1 when never set)
    calls,        \* history: the method calls / DOM events made so far
    fired,        \* history: the clock values at which the completion callback ran
    ticks         \* history: the values passed to an opaque progress callback
                  \* since the last resume() that scheduled (at `since`): those
                  \* of the last frame (`last`), the one before them (`prev`)

vars == <<delay, tick, remaining, start, timerId, timeouts, rafQueue, now,
          currentTab, hover, pauseable, barWidth, barOpacity, calls, fired,
          ticks>>

tabVars == <<currentTab, hover, pauseable, barWidth, barOpacity>>

Tabs == 1..NumTabs

\* f applied to x, with x evaluated once.
Strict(f(_), x) == CHOOSE r \in {f(v) : v \in {x}} : TRUE

Max(a, b) == IF a >= b THEN a ELSE b
Min(a, b) == IF a <= b THEN a ELSE b

\* ---- the host: setTimeout / clearTimeout / requestAnimationFrame ----

\* The state the Timer methods read and write, as one record.
World == [remaining |-> remaining, start |-> start, timerId |-> timerId,
          timeouts |-> timeouts, rafQueue |-> rafQueue,
          currentTab |-> currentTab, barWidth |-> barWidth,
          barOpacity |-> barOpacity, ticked |-> <<>>]

\* setTimeout returns a handle different from every handle in use.
FreshId(w) ==
    CHOOSE i \in 1..(Cardinality(w.timeouts) + 2) :
        /\ i # w.timerId
        /\ \A x \in w.timeouts : x.id # i

\* setTimeout(cb, ms): a negative ms is treated as 0.
setTimeout(w, id, kind, tab, ms) ==
    [w EXCEPT !.timeouts = @ \cup {[id |-> id, due |-> now + Max(ms, 0),
                                    kind |-> kind, tab |-> tab]}]

clearTimeout(w, id) ==
    [w EXCEPT !.timeouts = {x \in @ : x.id # id}]

requestAnimationFrame(w, cb) ==
    [w EXCEPT !.rafQueue = Append(@, cb)]

\* ---- class Timer ----

clear(w) ==
    [clearTimeout(w, w.timerId) EXCEPT !.timerId = 0]

\* Bookkeeping only: the frame callbacks of the loops started before a
\* pause() or reset() are not cancelled; they are marked as stale.
outdate(w) ==
    [w EXCEPT !.rafQueue =
        [i \in DOMAIN @ |->
            IF @[i].kind \in {"animate", "tick0"}
            THEN [@[i] EXCEPT !.stale = TRUE] ELSE @[i]]]

resetKeepRemaining(w) ==
    outdate([clear(w) EXCEPT !.start = 0])

reset(w) ==
    outdate([clear(w) EXCEPT !.remaining = delay, !.start = 0])

pause(w) ==
    IF w.start # 0
    THEN outdate(clear([w EXCEPT !.remaining = @ - (now - w.start),
                                 !.start = 0]))
    ELSE w

runProgressAnimation(w) ==
    requestAnimationFrame(w, [kind |-> "animate", start |-> 0, progress |-> 0,
                              stale |-> FALSE])

\* The body of resume's `if`: schedule the completion callback after ms and,
\* with a progress callback, stamp start and begin a progress loop.
schedule(w, ms) ==
    LET id == FreshId(w)
        w1 == [setTimeout(w, id, "cb", 0, ms) EXCEPT !.timerId = id]
    IN  IF tick
        THEN runProgressAnimation(
                 requestAnimationFrame([w1 EXCEPT !.start = now],
                     [kind |-> "tick0", start |-> 0, progress |-> 0,
                      stale |-> FALSE]))
        ELSE w1

resumeNoGuard(w) == schedule(w, w.remaining)

resumeRestart(w) ==
    IF w.timerId = 0 THEN schedule(w, w.remaining)
    ELSE [w EXCEPT !.start = IF tick THEN now ELSE @]

resumeEarly(w) ==
    IF w.timerId = 0 THEN schedule(w, w.remaining - 1) ELSE w

resume(w) ==
    IF w.timerId = 0 THEN schedule(w, w.remaining) ELSE w

\* The world w becomes the next state (w is computed once).
Install(w) ==
    \E v \in {w} :
        /\ remaining'  = v.remaining
        /\ start'      = v.start
        /\ timerId'    = v.timerId
        /\ timeouts'   = v.timeouts
        /\ rafQueue'   = v.rafQueue
        /\ currentTab' = v.currentTab
        /\ barWidth'   = v.barWidth
        /\ barOpacity' = v.barOpacity

Record(op) ==
    calls' = Append(calls, [op |-> op, at |-> now, run |-> timeouts # {}])

\* Calls are made early enough for a full countdown to end by MaxTime.
CanCall == Len(calls) < MaxCalls /\ now + delay <= MaxTime

\* ---- the Timer on its own: any caller, an opaque completion callback ----

\* No value has been passed to the progress callback.
NoTicks == [since |-> 0, prev |-> -1, last |-> <<>>]

Init ==
    /\ delay \in 1..MaxDelay
    /\ tick \in BOOLEAN
    /\ remaining = delay
    /\ start = 0
    /\ timerId = 0
    /\ timeouts = {}
    /\ rafQueue = <<>>
    /\ now = 1
    /\ currentTab = 0
    /\ hover = "unseen"
    /\ pauseable = FALSE
    /\ barWidth = [t \in Tabs |-> -1]
    /\ barOpacity = [t \in Tabs |-> -1]
    /\ calls = <<>>
    /\ fired = <<>>
    /\ ticks = NoTicks

Resume ==
    /\ CanCall
    /\ Install(resume(World))
    /\ Record("resume")
    /\ ticks' = IF tick /\ timerId = 0
                THEN [NoTicks EXCEPT !.since = now] ELSE ticks
    /\ UNCHANGED <<delay, tick, now, hover, pauseable, fired>>

Pause ==
    /\ CanCall
    /\ Install(pause(World))
    /\ Record("pause")
    /\ UNCHANGED <<delay, tick, ticks, now, hover, pauseable, fired>>

Reset ==
    /\ CanCall
    /\ Install(reset(World))
    /\ Record("reset")
    /\ UNCHANGED <<delay, tick, ticks, now, hover, pauseable, fired>>

\* The host runs a due completion callback; the handle stays in timerId.
Fire ==
    /\ \E x \in timeouts :
         /\ x.kind = "cb"
         /\ now >= x.due
         /\ timeouts' = timeouts \ {x}
    /\ fired' = Append(fired, now)
    /\ UNCHANGED <<delay, tick, remaining, start, timerId, rafQueue, now,
                   tabVars, calls, ticks>>

\* The clock advances by one unit; no due callback is later than MaxLate.
elapse(limit) ==
    /\ now < limit
    /\ \A x \in timeouts : now < x.due + MaxLate
    /\ now' = now + 1
    /\ UNCHANGED <<delay, tick, remaining, start, timerId, timeouts, rafQueue,
                   tabVars, calls, fired, ticks>>

Elapse == elapse(MaxTime)

\* Math.min(elapsed / delay, 1) * 100, in whole percent.
progressOf(elapsed) == (Min(elapsed, delay) * 100) \div delay

\* The tick callback: opaque for a bare Timer; in apply it defers the style
\* update of the current tab's progress bar to the next frame.
tickCb(w, progress, inApply, stale) ==
    IF inApply
    THEN requestAnimationFrame(w, [kind |-> "style", start |-> 0,
                                   progress |-> progress, stale |-> stale])
    ELSE [w EXCEPT !.ticked = Append(@, progress)]

animateNoStop(w, cb, inApply) ==
    LET s        == IF cb.start = 0 THEN now ELSE cb.start
        elapsed  == now - s
        progress == progressOf(elapsed)
        w1       == IF tick THEN tickCb(w, progress, inApply, cb.stale) ELSE w
    IN  IF elapsed <= delay
        THEN requestAnimationFrame(w1, [kind |-> "animate", start |-> s,
                                        progress |-> progress,
                                        stale |-> cb.stale])
        ELSE w1

\* One run of the closure `animate` of runProgressAnimation.
animate(w, cb, inApply) ==
    LET s        == IF cb.start = 0 THEN now ELSE cb.start
        elapsed  == now - s
        progress == progressOf(elapsed)
        w1       == IF tick THEN tickCb(w, progress, inApply, cb.stale) ELSE w
    IN  IF elapsed < delay
        THEN requestAnimationFrame(w1, [kind |-> "animate", start |-> s,
                                        progress |-> progress,
                                        stale |-> cb.stale])
        ELSE w1

\* The deferred style update of apply's tick callback.
styleCb(w, cb) ==
    IF w.currentTab # 0
    THEN [w EXCEPT !.barWidth[w.currentTab] = cb.progress,
                   !.barOpacity[w.currentTab] = 1]
    ELSE w

runCallback(w, cb, inApply) ==
    CASE cb.kind = "tick0"   -> tickCb(w, 0, inApply, cb.stale)
      [] cb.kind = "animate" -> animate(w, cb, inApply)
      [] cb.kind = "style"   -> styleCb(w, cb)

RECURSIVE runCallbacks(_, _, _)
runCallbacks(w, q, inApply) ==
    IF q = <<>> THEN w
    ELSE Strict(LAMBDA v : runCallbacks(v, Tail(q), inApply),
                runCallback(w, Head(q), inApply))

\* A frame runs every callback queued before it; callbacks queued while it
\* runs wait for the next frame.
runFrame(w, inApply) ==
    runCallbacks([w EXCEPT !.rafQueue = <<>>], w.rafQueue, inApply)

Frame ==
    /\ rafQueue # <<>>
    /\ \E w \in {runFrame(World, FALSE)} :
         /\ Install(w)
         /\ ticks' = [since |-> ticks.since,
                      prev  |-> IF ticks.last # <<>>
                                THEN ticks.last[Len(ticks.last)]
                                ELSE ticks.prev,
                      last  |-> w.ticked]
    /\ UNCHANGED <<delay, tick, now, hover, pauseable, calls, fired>>

Next == Resume \/ Pause \/ Reset \/ Fire \/ Frame \/ Elapse

Spec == Init /\ [][Next]_vars

\* Fairness: the clock advances and a due completion callback is run.
LiveSpec == Spec /\ WF_vars(Elapse) /\ WF_vars(Fire)

\* Fairness for the progress loops: moreover the browser keeps running frames.
LoopSpec == LiveSpec /\ WF_vars(Frame)

\* ---- apply: the tab group that owns the Timer ----

\* DOM events are counted, not told apart, in the history.
CanEvent == Len(calls) < MaxEvents /\ now + delay <= MaxTabTime

Event == calls' = Append(calls, [op |-> "event", at |-> 0, run |-> FALSE])

nextTabNoWrap(c) == c + 1

nextTabOf(c) == IF c + 1 > NumTabs THEN 1 ELSE c + 1

activateTabNoReset(w, tab) ==
    LET faded == [setTimeout(w, FreshId(w), "fade", w.currentTab, FadeDelay)
                     EXCEPT !.barOpacity[w.currentTab] = 0]
        w1 == IF tab # w.currentTab
              THEN [(IF tick /\ w.currentTab # 0 THEN faded ELSE w)
                       EXCEPT !.currentTab = tab]
              ELSE w
    IN  Strict(resume, w1)

activateTab(w, tab) ==
    LET faded == [setTimeout(w, FreshId(w), "fade", w.currentTab, FadeDelay)
                     EXCEPT !.barOpacity[w.currentTab] = 0]
        w1 == IF tab # w.currentTab
              THEN [(IF tick /\ w.currentTab # 0 THEN faded ELSE w)
                       EXCEPT !.currentTab = tab]
              ELSE w
    IN  Strict(resume, reset(w1))

\* The completion callback passed to new Timer(...) by apply: nextTab.click()
\* runs the click listener, i.e. activateTab(nextTab), before it returns.
advanceNoClick(w) ==
    IF w.currentTab = 0 THEN w
    ELSE [w EXCEPT !.currentTab = nextTabOf(w.currentTab)]

advance(w) ==
    IF w.currentTab = 0 THEN w
    ELSE LET nextTab == nextTabOf(w.currentTab)
         IN  [activateTab(w, nextTab) EXCEPT !.currentTab = nextTab]

InitTabs ==
    /\ delay \in 1..MaxDelay
    /\ tick \in BOOLEAN
    /\ pauseable \in BOOLEAN
    /\ now = 1
    \* the pointer is only observed through the listeners of a pauseable
    \* group; at load it may be anywhere
    /\ hover = "unseen"
    /\ calls = <<>>
    /\ fired = <<>>
    /\ ticks = NoTicks
    \* up to a rotation of the tab list, tab 1 or no tab has w--current
    /\ \E c \in 0..1 :
         LET w0 == [remaining |-> delay, start |-> 0, timerId |-> 0,
                    timeouts |-> {}, rafQueue |-> <<>>, currentTab |-> c,
                    barWidth |-> [t \in Tabs |-> -1],
                    barOpacity |-> [t \in Tabs |-> -1], ticked |-> <<>>]
             w  == IF c # 0 THEN resume(w0) ELSE w0
         IN  /\ remaining  = w.remaining
             /\ start      = w.start
             /\ timerId    = w.timerId
             /\ timeouts   = w.timeouts
             /\ rafQueue   = w.rafQueue
             /\ currentTab = w.currentTab
             /\ barWidth   = w.barWidth
             /\ barOpacity = w.barOpacity

Click ==
    /\ CanEvent
    /\ \E tab \in Tabs : Install(activateTab(World, tab))
    /\ Event
    /\ UNCHANGED <<delay, tick, ticks, now, hover, pauseable, fired>>

Focus ==
    /\ CanEvent
    /\ \E tab \in Tabs :
         Install(IF tab # currentTab THEN activateTab(World, tab) ELSE World)
    /\ Event
    /\ UNCHANGED <<delay, tick, ticks, now, hover, pauseable, fired>>

MouseEnter ==
    /\ CanEvent
    /\ pauseable
    /\ hover # "entered"
    /\ hover' = "entered"
    /\ Install(pause(World))
    /\ Event
    /\ UNCHANGED <<delay, tick, ticks, now, pauseable, fired>>

MouseLeave ==
    /\ CanEvent
    /\ pauseable
    /\ hover # "out"
    /\ hover' = "out"
    /\ Install(resume(World))
    /\ Event
    /\ UNCHANGED <<delay, tick, ticks, now, pauseable, fired>>

\* The host runs the due completion callback of the Timer: auto-advance.
Advance ==
    /\ \E x \in timeouts :
         /\ x.kind = "cb"
         /\ now >= x.due
         /\ Install(advance([World EXCEPT !.timeouts = @ \ {x}]))
    /\ fired' = Append(fired, now)
    /\ UNCHANGED <<delay, tick, ticks, now, hover, pauseable, calls>>

\* The host runs a due setTimeout(..., 400) of activateTab.
FadeOut ==
    /\ \E x \in timeouts :
         /\ x.kind = "fade"
         /\ now >= x.due
         /\ timeouts' = timeouts \ {x}
         /\ barWidth' = [barWidth EXCEPT ![x.tab] = 0]
    /\ UNCHANGED <<delay, tick, remaining, start, timerId, rafQueue, now,
                   currentTab, hover, pauseable, barOpacity, calls, fired,
                   ticks>>

TabElapse == elapse(MaxTabTime)

TabFrame ==
    /\ rafQueue # <<>>
    /\ Install(runFrame(World, TRUE))
    /\ UNCHANGED <<delay, tick, ticks, now, hover, pauseable, calls, fired>>

NextTabs ==
    Click \/ Focus \/ MouseEnter \/ MouseLeave \/ Advance \/ FadeOut
        \/ TabFrame \/ TabElapse

SpecTabs == InitTabs /\ [][NextTabs]_vars

\* ---- apply in the long run: a visible page, no pointer over the tabs ----

\* The same world with the origin of time moved forward by k: the code only
\* compares timestamps and tests them against 0 (unset).
shift(w, k) ==
    [w EXCEPT !.start = IF @ = 0 THEN 0 ELSE @ - k,
              !.timeouts = {[x EXCEPT !.due = @ - k] : x \in @},
              !.rafQueue = [i \in DOMAIN @ |->
                               IF @[i].start = 0 THEN @[i]
                               ELSE [@[i] EXCEPT !.start = @ - k]]]

InitRotate == InitTabs /\ currentTab # 0

\* One unit of time on a visible page: the browser runs the frame of this
\* unit, then the clock advances.  No timestamp in use is older than MaxDelay + MaxLate, so
\* from MaxDelay + MaxLate + 2 on the origin of time moves with the clock.
\* The history of fires is kept for the current unit only.
Turn ==
    /\ \A x \in timeouts : now < x.due + MaxLate
    /\ LET k == IF now >= MaxDelay + MaxLate + 2 THEN 1 ELSE 0
       IN  /\ Install(shift(runFrame(World, TRUE), k))
           /\ now' = now + 1 - k
    /\ fired' = <<>>
    /\ UNCHANGED <<delay, tick, ticks, hover, pauseable, calls>>

NextRotate == Click \/ Focus \/ Advance \/ FadeOut \/ Turn

RotateSpec == InitRotate /\ [][NextRotate]_vars

\* Fairness: time passes and the host runs the setTimeout callbacks that are
\* due.
RotateLive ==
    RotateSpec /\ WF_vars(Turn) /\ WF_vars(Advance) /\ WF_vars(FadeOut)

\* ---- history helpers ----

IsCall(op) ==
    /\ Len(calls') = Len(calls) + 1
    /\ calls'[Len(calls')].op = op

IsFire == Len(fired') = Len(fired) + 1

LastCall == calls[Len(calls)]

PendingFires == {x \in timeouts : x.kind = "cb"}

ActiveLoops == {i \in 1..Len(rafQueue) : rafQueue[i].kind = "animate"}

\* ---- the claims ----

\* C1: in every reachable state of a Timer, 0 <= remaining <= delay; pause()
\* after the nominal fire time never leaves remaining negative.
C1_RemainingInRange == 0 <= remaining /\ remaining <= delay

\* C2: at most one completion fire is pending for a Timer, whatever the
\* interleaving of resume(), pause(), reset() and completion fires.
C2_OnePendingFire == Cardinality(PendingFires) <= 1

C2_Witness ==
    /\ Cardinality(PendingFires) = 1
    /\ \E i, j \in 1..Len(calls) :
         /\ i < j
         /\ calls[i].op = "resume"
         /\ calls[j].op = "resume"
         /\ calls[j].run

\* C3: at most one progress-animation loop (a pending animate callback of
\* runProgressAnimation) is active at a time.
C3_OneProgressLoop == Cardinality(ActiveLoops) <= 1

OnlyResume == Len(calls) = 1 /\ calls[1].op = "resume"

\* C4: a fresh Timer on which resume() is called once and nothing else
\* invokes the completion callback exactly once: never before delay has
\* elapsed since the resume(), never a second time, and eventually.
C4_FiresOnce ==
    /\ [](OnlyResume =>
            /\ Len(fired) <= 1
            /\ \A i \in 1..Len(fired) : fired[i] >= calls[1].at + delay)
    /\ (OnlyResume ~> (Len(fired) = 1 \/ Len(calls) > 1))

C4_Witness == OnlyResume /\ Len(fired) = 1 /\ fired[1] >= calls[1].at + delay

\* C5: resume(), pause() after e time units (0 < e < delay), resume() again
\* later: the completion callback fires delay - e after the second resume()
\* and not earlier, with or without a progress callback.
C5_PausedTimeNotCounted ==
    ( /\ Len(calls) = 3
      /\ calls[1].op = "resume"
      /\ calls[2].op = "pause"
      /\ calls[3].op = "resume"
      /\ calls[2].at - calls[1].at > 0
      /\ calls[2].at - calls[1].at < delay )
    => \A i \in 1..Len(fired) :
         fired[i] >= calls[3].at + delay - (calls[2].at - calls[1].at)

\* C6: pause() on a running Timer cancels the pending fire and clears
\* runningSince; the completion callback is not invoked until the next
\* resume().
C6_PauseCancels ==
    [][ /\ (IsCall("pause") /\ PendingFires # {})
           => (PendingFires' = {} /\ start' = 0)
        /\ (IsFire /\ calls # <<>>) => LastCall.op # "pause" ]_vars

\* C7: with fb-tabs-pauseable="true", no automatic tab advance happens
\* between a mouseenter and the next mouseleave.
C7_NoAdvanceOnHover ==
    [][ ~(pauseable /\ hover = "entered" /\ currentTab # 0 /\ IsFire) ]_vars

\* C8: after reset() the Timer is in the state of a freshly constructed,
\* not-yet-resumed Timer: remaining = delay, runningSince unset, no pending
\* fire, no active progress loop or pending progress callback.
C8_ResetIsFresh ==
    [][ IsCall("reset") =>
          /\ remaining' = delay
          /\ start' = 0
          /\ timerId' = 0
          /\ timeouts' = {}
          /\ rafQueue' = <<>> ]_vars

\* C9: reset() on a running Timer cancels the pending fire: the completion
\* callback is not invoked between the reset() and the next resume(), and
\* that resume() schedules it exactly delay after itself; a completion
\* callback never runs before its scheduled time.
C9_ResetThenResume ==
    [][ /\ IsCall("reset") => (PendingFires' = {} /\ remaining' = delay)
        /\ (IsFire /\ calls # <<>>) => LastCall.op # "reset"
        /\ (IsCall("resume") /\ calls # <<>> /\ LastCall.op = "reset")
             => \E x \in timeouts' :
                  /\ PendingFires' = {x}
                  /\ x.due = now + delay
                  /\ timerId' = x.id
        /\ IsFire => \A x \in timeouts \ timeouts' : now >= x.due ]_vars

C9_Witness ==
    /\ Len(fired) = 1
    /\ \E i \in 2..(Len(calls) - 1) :
         /\ calls[i].op = "reset"
         /\ calls[i].run
         /\ calls[i].at > calls[1].at
         /\ calls[i + 1].op = "resume"
         /\ i + 1 = Len(calls)
         /\ fired[1] >= calls[i + 1].at + delay

\* C10: resume() on a Timer with a pending completion fire changes nothing:
\* not the scheduled fire, remaining, runningSince, nor the progress loops.
C10_ResumeIdempotent ==
    [][ (IsCall("resume") /\ PendingFires # {})
          => UNCHANGED <<remaining, start, timerId, timeouts, rafQueue>> ]_vars

C10_Witness ==
    /\ calls # <<>>
    /\ LastCall.op = "resume"
    /\ LastCall.run
    /\ LastCall.at > calls[1].at
    /\ PendingFires # {}

\* The values passed to the progress callback since the last resume() that
\* scheduled, as far as the history keeps them, oldest first.
TickValues == (IF ticks.prev = -1 THEN <<>> ELSE <<ticks.prev>>) \o ticks.last

\* C11: for a Timer with a progress callback, the values passed to the
\* progress callback after the most recent resume() are non-decreasing, start
\* at 0, and reach 100 no earlier than delay after that resume().
C11_ProgressMonotone ==
    (tick /\ ticks.since # 0) =>
        /\ \A i, j \in 1..Len(TickValues) :
               i < j => TickValues[i] <= TickValues[j]
        /\ (ticks.prev = -1 /\ ticks.last # <<>>) => ticks.last[1] = 0
        /\ \A i \in 1..Len(ticks.last) :
               ticks.last[i] = 100 => now >= ticks.since + delay

\* C12: start is non-zero exactly when a completion fire is pending, with or
\* without a progress callback.
C12_StartIffRunning == (start # 0) <=> (PendingFires # {})

\* C13: the completion callback runs once per countdown: without a reset(),
\* no sequence of pause() and resume() makes it run a second time.
C13_FiresOncePerCountdown ==
    (\A i \in 1..Len(calls) : calls[i].op # "reset") => Len(fired) <= 1

\* The next frame, run on w with the callbacks q: every style update that a
\* stale loop asked for leaves the bar of the current tab as it is.
RECURSIVE staleTicksNoOp(_, _)
staleTicksNoOp(w, q) ==
    IF q = <<>> THEN TRUE
    ELSE LET cb == Head(q)
             w1 == runCallback(w, cb, TRUE)
         IN  /\ (cb.kind = "style" /\ cb.stale /\ w.currentTab # 0) =>
                    /\ w1.barWidth[w.currentTab] = w.barWidth[w.currentTab]
                    /\ w1.barOpacity[w.currentTab] = w.barOpacity[w.currentTab]
             /\ staleTicksNoOp(w1, Tail(q))

\* C14: in the tab component, a progress tick issued by a stale progress loop
\* (one started before the most recent pause or tab activation) never changes
\* the width or the opacity of the progress bar of the current tab.
C14_StaleTicksNoOp == staleTicksNoOp([World EXCEPT !.rafQueue = <<>>], rafQueue)

\* A step that activates a tab: a click on any tab, a focus on a tab other
\* than the current one, or the completion callback with a current tab.
IsActivation ==
    \/ /\ Len(calls') = Len(calls) + 1
       /\ hover' = hover
       /\ \/ Click
          \/ Focus /\ \E tab \in Tabs :
                        /\ tab # currentTab
                        /\ Install(activateTab(World, tab))
    \/ IsFire /\ currentTab # 0 /\ Advance

C16_CyclicSuccessor ==
    /\ [](currentTab \in 0..NumTabs)
    /\ [][ IsFire =>
              currentTab' = IF currentTab = 0 THEN 0
                            ELSE (currentTab % NumTabs) + 1 ]_vars

C16_Witness ==
    /\ calls = <<>>
    /\ Len(fired) = NumTabs
    /\ currentTab = 1

\* C17: the rotation never stalls: for a tab group with a current tab at
\* initialisation and no hover events, every completion fire schedules a new
\* one, so that, time passing, the automatic advance happens infinitely often
\* and every tab is current infinitely often.
C17_RotationNeverStalls ==
    /\ [][ IsFire => \E x \in timeouts' :
                        PendingFires' = {x} /\ x.due = now + delay ]_vars
    /\ []<><<IsFire>>_vars
    /\ \A t \in Tabs : []<>(currentTab = t)

C17_Witness ==
    /\ calls = <<>>
    /\ Len(fired) = 1
    /\ currentTab = 1
    /\ now = MaxDelay + MaxLate + 2
    /\ PendingFires # {}

\* A step of Frame: of the steps of a bare Timer, the one that is neither a
\* call nor a completion fire nor a tick of the clock.
IsFrame == now' = now /\ calls' = calls /\ fired' = fired

\* The loops of the queue that the frame of this instant ends / continues.
EndingLoops == {i \in ActiveLoops :
                  rafQueue[i].start # 0 /\ now - rafQueue[i].start >= delay}
ContinuingLoops == ActiveLoops \ EndingLoops

\* C18: every progress loop terminates, whether or not pause() or reset() was
\* called: a frame re-schedules a loop only while elapsed < delay (counted
\* from the loop's first tick) and otherwise ends it with a final tick of
\* 100; with frames that keep coming and time that advances, every loop that
\* can reach its delay within the horizon of the clock ends.
C18_LoopTerminates ==
    /\ [][ IsFrame =>
              /\ Cardinality(ActiveLoops') = Cardinality(ContinuingLoops)
              /\ Cardinality({i \in 1..Len(ticks'.last) : ticks'.last[i] = 100})
                     = Cardinality(EndingLoops) ]_vars
    /\ <>[](\A i \in ActiveLoops :
               /\ rafQueue[i].start # 0
               /\ rafQueue[i].start + delay > MaxTime)

C18_Witness ==
    /\ Len(calls) >= 2
    /\ calls[2].op \in {"pause", "reset"}
    /\ ActiveLoops = {}
    /\ \E i \in 1..Len(ticks.last) : ticks.last[i] = 100
====
